---- MODULE Spec2Model ----
(***************************************************************************)
(* Rooted binary tree rearrangement (src/tree/rtree_operations.c):         *)
(* pllmod_rtree_get_sister, pllmod_rtree_prune, pllmod_rtree_regraft,      *)
(* pllmod_rtree_spr and pllmod_rtree_nodes_at_node_dist.                   *)
(*                                                                         *)
(* The heap is a set of pll_rtree_t nodes 1..MaxNodes with the fields      *)
(* parent, left and right; 0 is the null pointer.  A pll_rtree_t ** (the   *)
(* address of a child cell) is a record [node, side].  Every exported      *)
(* function is one action: the library is single-threaded and synchronous. *)
(***************************************************************************)
EXTENDS Integers, Sequences, FiniteSets, TLC

\* ---------------------------------------------------------------- bounds
MaxNodes == 5
MaxCalls == 2
MaxDist == 3

\* ------------------------------------------------------------- constants
NULL == 0

PLL_SUCCESS == "PLL_SUCCESS"
PLL_FAILURE == "PLL_FAILURE"

NoError == "0"
PLLMOD_TREE_ERROR_INVALID_TREE == "PLLMOD_TREE_ERROR_INVALID_TREE"
PLLMOD_TREE_ERROR_SPR_INVALID_NODE == "PLLMOD_TREE_ERROR_SPR_INVALID_NODE"
PLLMOD_ERROR_INVALID_RANGE == "PLLMOD_ERROR_INVALID_RANGE"
PLLMOD_TREE_REARRANGE_SPR == "PLLMOD_TREE_REARRANGE_SPR"

Nodes == 1..MaxNodes
Nodes0 == 0..MaxNodes
Distances == (0 - 1)..MaxDist

\* ----------------------------------------------------------------- state
VARIABLES
  parent,        \* pll_rtree_t.parent of every node
  left,          \* pll_rtree_t.left
  right,         \* pll_rtree_t.right
  nodeCount,     \* nodes 1..nodeCount make up the caller's tree
  root,          \* the caller's root handle (*root of pllmod_rtree_spr)
  pll_errno,     \* the process-wide error register
  out_self,      \* the cell the caller of pllmod_rtree_get_sister passed as self
  out_sister,    \* the cell the caller of pllmod_rtree_get_sister passed as sister
  outbuffer,     \* the caller's buffer of nodeCount entries
  n_nodes,       \* the caller's *n_nodes
  rollback_info, \* the caller's pll_tree_rollback_t
  call,          \* the last call and its arguments
  pre,           \* the heap and the caller's cells as they were before it
  ret,           \* the int the last call returned ("pointer" for pllmod_rtree_prune)
  ret_node,      \* the pll_rtree_t * pllmod_rtree_prune returned
  status,        \* "ok", "abort" (failed assert) or "crash" (undefined behaviour)
  calls          \* number of calls made so far

vars == <<parent, left, right, nodeCount, root, pll_errno, out_self, out_sister,
          outbuffer, n_nodes, rollback_info, call, pre, ret, ret_node, status,
          calls>>

\* ------------------------------------------------------- child-cell slots
\* pll_rtree_t ** values: the address of node.left or node.right, or NULL
NoSlot == [node |-> NULL, side |-> "null"]
\* a cell of the caller that no call has written yet
Uninit == [node |-> NULL, side |-> "uninitialized"]
LeftOf(q) == [node |-> q, side |-> "left"]
RightOf(q) == [node |-> q, side |-> "right"]

\* the heap as one value
Heap == [parent |-> parent, left |-> left, right |-> right]

\* *slot
Deref(T, slot) ==
  IF slot.side = "left" THEN T.left[slot.node] ELSE T.right[slot.node]

\* *slot = v
Store(T, slot, v) ==
  IF slot.side = "left"
    THEN [T EXCEPT !.left[slot.node] = v]
    ELSE [T EXCEPT !.right[slot.node] = v]

\* x->parent = v
SetParent(T, x, v) == [T EXCEPT !.parent[x] = v]

\* ---------------------------------------------------- pllmod_rtree_get_sister
\* Faulty variant: the right-child branch hands out the cells of the
\* left-child branch
get_sister_swapped(T, node) ==
  IF T.parent[node] = NULL
    THEN [ret |-> PLL_SUCCESS, self |-> NoSlot, sister |-> NoSlot, err |-> NoError]
  ELSE IF T.left[T.parent[node]] = node \/ T.right[T.parent[node]] = node
    THEN [ret |-> PLL_SUCCESS, self |-> LeftOf(T.parent[node]),
          sister |-> RightOf(T.parent[node]), err |-> NoError]
  ELSE [ret |-> PLL_FAILURE, self |-> NoSlot, sister |-> NoSlot,
        err |-> PLLMOD_TREE_ERROR_INVALID_TREE]

\* Faulty variant: the final else is missing, a node that is in neither slot
\* is treated as the right child
get_sister_unchecked(T, node) ==
  IF T.parent[node] = NULL
    THEN [ret |-> PLL_SUCCESS, self |-> NoSlot, sister |-> NoSlot, err |-> NoError]
  ELSE IF T.left[T.parent[node]] = node
    THEN [ret |-> PLL_SUCCESS, self |-> LeftOf(T.parent[node]),
          sister |-> RightOf(T.parent[node]), err |-> NoError]
  ELSE [ret |-> PLL_SUCCESS, self |-> RightOf(T.parent[node]),
        sister |-> LeftOf(T.parent[node]), err |-> NoError]

\* The values the function hands to *self and *sister (when requested), its
\* return value and the error it sets.
pllmod_rtree_get_sister(T, node) ==
  IF T.parent[node] = NULL
    THEN [ret |-> PLL_SUCCESS, self |-> NoSlot, sister |-> NoSlot, err |-> NoError]
  ELSE IF T.left[T.parent[node]] = node
    THEN [ret |-> PLL_SUCCESS, self |-> LeftOf(T.parent[node]),
          sister |-> RightOf(T.parent[node]), err |-> NoError]
  ELSE IF T.right[T.parent[node]] = node
    THEN [ret |-> PLL_SUCCESS, self |-> RightOf(T.parent[node]),
          sister |-> LeftOf(T.parent[node]), err |-> NoError]
  ELSE [ret |-> PLL_FAILURE, self |-> NoSlot, sister |-> NoSlot,
        err |-> PLLMOD_TREE_ERROR_INVALID_TREE]

\* pllmod_set_error: a call that sets no error leaves pll_errno alone
SetErrno(old, err) == IF err = NoError THEN old ELSE err

\* --------------------------------------------------------- pllmod_rtree_prune
\* The result of a call: the heap it leaves, the value it returns, the error
\* it sets and how it ended: "ok" (it returned), "abort" (an assert failed) or
\* "crash" (it wrote or read through a null pointer; T is the heap up to there).
Result(T, r, e, st) == [T |-> T, ret |-> r, err |-> e, status |-> st]

\* Faulty variant: the sibling moves up but its parent link is left as it was
PruneGrandparent_stale_parent(T, node, sister_ptr) ==
  LET connected_node == T.parent[T.parent[node]]
      gp == pllmod_rtree_get_sister(T, T.parent[node])
      T1 == Store(T, gp.self, Deref(T, sister_ptr))
      T3 == Store(T1, sister_ptr, NULL)
      T4 == SetParent(T3, T3.parent[node], NULL)
  IN IF gp.ret = PLL_FAILURE THEN Result(T, NULL, gp.err, "ok")
     ELSE IF Deref(T1, sister_ptr) = NULL THEN Result(T1, NULL, NoError, "crash")
     ELSE Result(T4, connected_node, NoError, "ok")

\* Faulty variant: the sibling cell is cleared before the grandparent's cell
\* is looked up
PruneGrandparent_write_first(T, node, sister_ptr) ==
  LET connected_node == T.parent[T.parent[node]]
      T0 == Store(T, sister_ptr, NULL)
      gp == pllmod_rtree_get_sister(T0, T0.parent[node])
      T1 == Store(T0, gp.self, Deref(T, sister_ptr))
      T2 == SetParent(T1, Deref(T, sister_ptr), T1.parent[T1.parent[node]])
      T4 == SetParent(T2, T2.parent[node], NULL)
  IN IF gp.ret = PLL_FAILURE THEN Result(T0, NULL, gp.err, "ok")
     ELSE IF Deref(T, sister_ptr) = NULL THEN Result(T1, NULL, NoError, "crash")
     ELSE Result(T4, connected_node, NoError, "ok")

\* lines 90-111, the branch where node->parent->parent is set
PruneGrandparent(T, node, sister_ptr) ==
  LET connected_node == T.parent[T.parent[node]]
      gp == pllmod_rtree_get_sister(T, T.parent[node])
      parent_ptr == gp.self
      \* *parent_ptr = *sister_ptr
      T1 == Store(T, parent_ptr, Deref(T, sister_ptr))
      \* (*sister_ptr)->parent = node->parent->parent
      T2 == SetParent(T1, Deref(T1, sister_ptr), T1.parent[T1.parent[node]])
      \* *sister_ptr = NULL
      T3 == Store(T2, sister_ptr, NULL)
      \* node->parent->parent = NULL
      T4 == SetParent(T3, T3.parent[node], NULL)
  IN IF gp.ret = PLL_FAILURE THEN Result(T, NULL, gp.err, "ok")
     ELSE IF Deref(T1, sister_ptr) = NULL THEN Result(T1, NULL, NoError, "crash")
     ELSE IF T3.parent[node] = NULL THEN Result(T3, NULL, NoError, "crash")
     ELSE Result(T4, connected_node, NoError, "ok")

\* lines 112-119, the re-root branch
PruneReroot(T, node, sister_ptr) ==
  Result(Store(T, sister_ptr, NULL), Deref(T, sister_ptr), NoError, "ok")

pllmod_rtree_prune(T, node) ==
  LET gs == pllmod_rtree_get_sister(T, node) IN
  IF T.parent[node] = NULL
    THEN Result(T, NULL, PLLMOD_TREE_ERROR_SPR_INVALID_NODE, "ok")
  ELSE IF gs.ret = PLL_FAILURE
    THEN Result(T, NULL, gs.err, "ok")
  \* assert (self_ptr && sister_ptr) holds: node has a parent and the lookup succeeded
  ELSE IF T.parent[T.parent[node]] # NULL
    THEN PruneGrandparent(T, node, gs.sister)
  ELSE PruneReroot(T, node, gs.sister)

\* ------------------------------------------------------- pllmod_rtree_regraft
\* lines 158-168, the writes
RegraftCommit(T, node, tree, parent_node, edge_from_parent, edge_to_child) ==
  LET \* parent_node->parent = tree->parent
      T1 == SetParent(T, parent_node, T.parent[tree])
      \* tree->parent = parent_node
      T2 == SetParent(T1, tree, parent_node)
      \* if (tree->parent) *edge_from_parent = parent_node
      T3 == IF T2.parent[tree] # NULL THEN Store(T2, edge_from_parent, parent_node)
            ELSE T2
      \* *edge_to_child = tree
      T4 == Store(T3, edge_to_child, tree)
  IN IF T2.parent[tree] # NULL /\ edge_from_parent = NoSlot
       THEN Result(T2, "none", NoError, "crash")
     ELSE IF edge_to_child = NoSlot
       THEN Result(T3, "none", NoError, "crash")
     ELSE Result(T4, PLL_SUCCESS, NoError, "ok")

\* Faulty variant: tree->parent is written before node is validated
regraft_late_check(T, node, tree) ==
  IF T.parent[node] = NULL \/ T.parent[T.parent[node]] # NULL
    THEN Result(SetParent(T, tree, T.parent[node]), PLL_FAILURE,
                PLLMOD_TREE_ERROR_SPR_INVALID_NODE, "ok")
    ELSE LET parent_node == T.parent[node]
             r1 == pllmod_rtree_get_sister(T, tree)
             edge_from_parent == IF T.parent[tree] # NULL THEN r1.self ELSE NoSlot
         IN IF T.parent[tree] # NULL /\ r1.ret = PLL_FAILURE
              THEN Result(T, PLL_FAILURE, r1.err, "ok")
            ELSE RegraftCommit(T, node, tree, parent_node, edge_from_parent,
                               r1.sister)

\* Faulty variant: parent_node->parent is written before the target is
\* looked up
regraft_write_first(T, node, tree) ==
  LET parent_node == T.parent[node]
      r1 == pllmod_rtree_get_sister(T, tree)
      edge_from_parent == IF T.parent[tree] # NULL THEN r1.self ELSE NoSlot
      T1 == SetParent(T, parent_node, T.parent[tree])
  IN IF T.parent[node] = NULL \/ T.parent[T.parent[node]] # NULL
       THEN Result(T, PLL_FAILURE, PLLMOD_TREE_ERROR_SPR_INVALID_NODE, "ok")
     ELSE IF T.parent[tree] # NULL /\ r1.ret = PLL_FAILURE
       THEN Result(T1, PLL_FAILURE, r1.err, "ok")
     ELSE RegraftCommit(T, node, tree, parent_node, edge_from_parent, r1.sister)

pllmod_rtree_regraft(T, node, tree) ==
  LET parent_node == T.parent[node]
      r1 == pllmod_rtree_get_sister(T, tree)
      \* pll_rtree_t **edge_from_parent = 0: written only when tree has a parent
      edge_from_parent == IF T.parent[tree] # NULL THEN r1.self ELSE NoSlot
      r2 == pllmod_rtree_get_sister(T, tree)
      edge_to_child == r2.sister
  IN IF T.parent[node] = NULL \/ T.parent[T.parent[node]] # NULL
       THEN Result(T, PLL_FAILURE, PLLMOD_TREE_ERROR_SPR_INVALID_NODE, "ok")
     \* assert(pll_errno) holds in both failure returns: the lookup set the error
     ELSE IF T.parent[tree] # NULL /\ r1.ret = PLL_FAILURE
       THEN Result(T, PLL_FAILURE, r1.err, "ok")
     ELSE IF r2.ret = PLL_FAILURE
       THEN Result(T, PLL_FAILURE, r2.err, "ok")
     ELSE RegraftCommit(T, node, tree, parent_node, edge_from_parent, edge_to_child)

\* ----------------------------------------------------------- pllmod_rtree_spr
\* The result of pllmod_rtree_spr: also the root handle and the rollback record
SprResult(T, rt, rb, r, e, st) ==
  [T |-> T, root |-> rt, rollback_info |-> rb, ret |-> r, err |-> e, status |-> st]

RECURSIVE RootWalk(_, _, _)
\* lines 231-232: while ((*root)->parent) *root = (*root)->parent; NULL stands
\* for a walk that does not end (the parent links form a cycle)
RootWalk(T, r, fuel) ==
  IF T.parent[r] = NULL THEN r
  ELSE IF fuel = 0 THEN NULL
  ELSE RootWalk(T, T.parent[r], fuel - 1)

\* lines 202-213
SprRollback(T, rb, p_node, sister_ptr) ==
  [rb EXCEPT !.rearrange_type = PLLMOD_TREE_REARRANGE_SPR, !.rooted = 1,
             !.prune_edge = p_node,
             !.regraft_edge = IF sister_ptr = NoSlot THEN @ ELSE Deref(T, sister_ptr)]

\* lines 222-234, entered with the result pr of the successful prune
SprRegraft(pr, e1, rt, rb, p_node, r_tree, useRoot) ==
  LET \* pllmod_rtree_regraft(p_node->parent, r_tree)
      rg == pllmod_rtree_regraft(pr.T, pr.T.parent[p_node], r_tree)
      e2 == SetErrno(e1, rg.err)
      newroot == RootWalk(rg.T, rt, MaxNodes)
  IN IF pr.T.parent[p_node] = NULL
       THEN SprResult(pr.T, rt, rb, "none", e1, "crash")
     ELSE IF rg.status # "ok" THEN SprResult(rg.T, rt, rb, "none", e2, rg.status)
     \* assert(pll_errno) holds: the failed regraft set the error
     ELSE IF rg.ret = PLL_FAILURE THEN SprResult(rg.T, rt, rb, PLL_FAILURE, e2, "ok")
     ELSE IF ~useRoot THEN SprResult(rg.T, rt, rb, PLL_SUCCESS, e2, "ok")
     ELSE IF newroot = NULL THEN SprResult(rg.T, rt, rb, "none", e2, "hang")
     ELSE SprResult(rg.T, newroot, rb, PLL_SUCCESS, e2, "ok")

\* lines 215-234, entered with the rollback record rb already written.
\* The set of outcomes: a failed assert aborts, or goes unnoticed in a build
\* that defines NDEBUG.
SprMove(pr, e1, rt, rb, p_node, r_tree, useRoot) ==
  IF pr.status # "ok" THEN {SprResult(pr.T, rt, rb, "none", e1, pr.status)}
  ELSE IF pr.ret = NULL
    \* assert(pll_errno)
    THEN (IF e1 = NoError
            THEN {SprResult(pr.T, rt, rb, "none", e1, "abort"),
                  SprResult(pr.T, rt, rb, PLL_FAILURE, e1, "ok")}
            ELSE {SprResult(pr.T, rt, rb, PLL_FAILURE, e1, "ok")})
  ELSE {SprRegraft(pr, e1, rt, rb, p_node, r_tree, useRoot)}

\* Faulty variant: the rollback record is filled in after the prune step
SprChecked_rollback_late(T, gs, e0, rt, rb, p_node, r_tree, useRoot, useRollback) ==
  IF useRollback /\ gs.sister = NoSlot
    THEN {SprResult(T, rt, SprRollback(T, rb, p_node, gs.sister), "none", e0, "crash")}
  ELSE SprMove(pllmod_rtree_prune(T, p_node),
               SetErrno(e0, pllmod_rtree_prune(T, p_node).err), rt,
               IF useRollback
                 THEN SprRollback(pllmod_rtree_prune(T, p_node).T, rb, p_node, gs.sister)
                 ELSE rb,
               p_node, r_tree, useRoot)

\* lines 186-213, entered with the result gs of the successful lookup
SprChecked(T, gs, e0, rt, rb, p_node, r_tree, useRoot, useRollback) ==
  \* rollback_info->SPR.regraft_edge = *sister_ptr with sister_ptr == NULL
  IF useRollback /\ gs.sister = NoSlot
    THEN {SprResult(T, rt, SprRollback(T, rb, p_node, gs.sister), "none", e0, "crash")}
  ELSE SprMove(pllmod_rtree_prune(T, p_node),
               SetErrno(e0, pllmod_rtree_prune(T, p_node).err), rt,
               IF useRollback THEN SprRollback(T, rb, p_node, gs.sister) ELSE rb,
               p_node, r_tree, useRoot)

pllmod_rtree_spr(T, errno, rt, rb, p_node, r_tree, useRoot, useRollback) ==
  LET gs == pllmod_rtree_get_sister(T, p_node)
      e0 == SetErrno(errno, gs.err)
  IN \* assert(pll_errno) holds: the failed lookup set the error
     IF gs.ret = PLL_FAILURE THEN {SprResult(T, rt, rb, PLL_FAILURE, e0, "ok")}
     \* assert (self_ptr && sister_ptr)
     ELSE IF gs.self = NoSlot \/ gs.sister = NoSlot
       THEN {SprResult(T, rt, rb, "none", e0, "abort")}
            \cup SprChecked(T, gs, e0, rt, rb, p_node, r_tree, useRoot, useRollback)
     ELSE SprChecked(T, gs, e0, rt, rb, p_node, r_tree, useRoot, useRollback)

\* --------------------------------------------- pllmod_rtree_nodes_at_node_dist
\* The output cells while the function runs: the buffer, *n_nodes, and whether
\* a write fell outside the buffer or a null node was dereferenced.
Out(buf, n, ub) == [buf |-> buf, n |-> n, ub |-> ub]

\* outbuffer[*n_nodes] = x; *n_nodes = *n_nodes + 1
Emit(o, x) ==
  IF o.n + 1 \in DOMAIN o.buf
    THEN Out([o.buf EXCEPT ![o.n + 1] = x], o.n + 1, o.ub)
    ELSE Out(o.buf, o.n, TRUE)

RECURSIVE rtree_nodes_at_node_dist_down(_, _, _, _, _)
rtree_nodes_at_node_dist_down(T, rt, o, min_distance, max_distance) ==
  IF o.ub \/ max_distance < 0 THEN o
  ELSE LET o1 == IF min_distance < 0 THEN Emit(o, rt) ELSE o IN
       \* root->left with root == NULL
       IF rt = NULL THEN Out(o1.buf, o1.n, TRUE)
       ELSE IF ~(T.left[rt] # NULL /\ T.right[rt] # NULL) THEN o1
       ELSE rtree_nodes_at_node_dist_down(T, T.right[rt],
              rtree_nodes_at_node_dist_down(T, T.left[rt], o1,
                                            min_distance - 1, max_distance - 1),
              min_distance - 1, max_distance - 1)

\* The result of pllmod_rtree_nodes_at_node_dist
DistResult(o, r, e) ==
  [outbuffer |-> o.buf, n_nodes |-> o.n, ret |-> IF o.ub THEN "none" ELSE r,
   err |-> e, status |-> IF o.ub THEN "crash" ELSE "ok"]

RECURSIVE NodesAtDistUp(_, _, _, _, _)
\* lines 284-312: the loop, entered with current_root and the bounds as they
\* are at the top of an iteration
NodesAtDistUp(T, current_root, o, min_distance, max_distance) ==
  LET gs == pllmod_rtree_get_sister(T, current_root)
      up == T.parent[current_root]
      o1 == IF min_distance - 1 < 0 THEN Emit(o, up) ELSE o
      o2 == rtree_nodes_at_node_dist_down(T, Deref(T, gs.sister), o1,
                                          min_distance - 2, max_distance - 2)
  IN IF o.ub THEN DistResult(o, "none", NoError)
     ELSE IF T.parent[current_root] = NULL THEN DistResult(o, PLL_SUCCESS, NoError)
     ELSE IF gs.ret = PLL_FAILURE THEN DistResult(o, PLL_FAILURE, gs.err)
     ELSE NodesAtDistUp(T, up, o2, min_distance - 1, max_distance - 1)

\* Faulty variant: before the climb, the parent of the reference node is
\* visited with everything below it
nodes_at_node_dist_parent_twice(T, rt, buf, n, min_distance, max_distance) ==
  IF max_distance < min_distance
    THEN DistResult(Out(buf, n, FALSE), PLL_FAILURE, PLLMOD_ERROR_INVALID_RANGE)
  ELSE IF T.parent[rt] = NULL
    THEN NodesAtDistUp(T, rt, Out(buf, 0, FALSE), min_distance, max_distance)
  ELSE NodesAtDistUp(T, rt,
         rtree_nodes_at_node_dist_down(T, T.parent[rt], Out(buf, 0, FALSE),
                                       min_distance - 1, max_distance - 1),
         min_distance, max_distance)

\* Faulty variant: *n_nodes is reset before the range is validated
nodes_at_node_dist_reset_first(T, rt, buf, n, min_distance, max_distance) ==
  IF max_distance < min_distance
    THEN DistResult(Out(buf, 0, FALSE), PLL_FAILURE, PLLMOD_ERROR_INVALID_RANGE)
    ELSE NodesAtDistUp(T, rt, Out(buf, 0, FALSE), min_distance, max_distance)

pllmod_rtree_nodes_at_node_dist(T, rt, buf, n, min_distance, max_distance) ==
  IF max_distance < min_distance
    THEN DistResult(Out(buf, n, FALSE), PLL_FAILURE, PLLMOD_ERROR_INVALID_RANGE)
    \* *n_nodes = 0
    ELSE NodesAtDistUp(T, rt, Out(buf, 0, FALSE), min_distance, max_distance)

\* ------------------------------------------------------------ well-formedness
RECURSIVE AncestorsOf(_, _, _)
\* the nodes met by following parent links from n, at most k of them
AncestorsOf(T, n, k) ==
  IF k = 0 \/ T.parent[n] = NULL THEN {}
  ELSE {T.parent[n]} \cup AncestorsOf(T, T.parent[n], k - 1)

\* I1: every non-root node is held by exactly one slot of its parent
I1(T, N) ==
  \A n \in 1..N : T.parent[n] # NULL =>
    (T.left[T.parent[n]] = n) # (T.right[T.parent[n]] = n)

\* I2: zero or two children, and a child names its holder as parent
I2(T, N) ==
  \A n \in 1..N :
    /\ (T.left[n] = NULL) <=> (T.right[n] = NULL)
    /\ T.left[n] # NULL => T.parent[T.left[n]] = n
    /\ T.right[n] # NULL => T.parent[T.right[n]] = n

\* I3: one parentless node, and no node is its own ancestor
I3(T, N) ==
  /\ Cardinality({n \in 1..N : T.parent[n] = NULL}) = 1
  /\ \A n \in 1..N : n \notin AncestorsOf(T, n, N)

WellFormed(T, N) == I1(T, N) /\ I2(T, N) /\ I3(T, N)

\* ------------------------------------------------------------------- Init
NoCall == [op |-> "none", node |-> NULL, tree |-> NULL, self |-> FALSE,
           sister |-> FALSE, root |-> FALSE, rollback |-> FALSE,
           min_distance |-> 0, max_distance |-> 0]

NoRollback == [rearrange_type |-> "unset", rooted |-> 0,
               prune_edge |-> NULL, regraft_edge |-> NULL]

Snapshot == [parent |-> parent, left |-> left, right |-> right, root |-> root,
             pll_errno |-> pll_errno, outbuffer |-> outbuffer,
             n_nodes |-> n_nodes, rollback_info |-> rollback_info]

\* The trees a caller hands in, one per shape: node 1 is the root, the nodes
\* are numbered level by level from left to right, every node has zero or two
\* children.  Nodes above N are not part of the tree.
ParentMaps(N) ==
  {p \in [1..MaxNodes -> Nodes0] :
     /\ p[1] = NULL
     /\ \A i \in 2..MaxNodes : IF i <= N THEN p[i] \in 1..(i - 1) ELSE p[i] = NULL
     /\ \A i \in 2..(N - 1) : p[i] <= p[i + 1]
     /\ \A q \in 1..N : Cardinality({i \in 2..N : p[i] = q}) \in {0, 2}}

ChildrenOf(p, q) == {i \in Nodes : p[i] = q}
MinOf(S) == CHOOSE x \in S : \A y \in S : x <= y
MaxOf(S) == CHOOSE x \in S : \A y \in S : x >= y

InitLeft(p) ==
  [q \in Nodes |-> IF ChildrenOf(p, q) = {} THEN NULL ELSE MinOf(ChildrenOf(p, q))]

InitRight(p) ==
  [q \in Nodes |-> IF ChildrenOf(p, q) = {} THEN NULL ELSE MaxOf(ChildrenOf(p, q))]

Init ==
  \E N \in {k \in Nodes : k % 2 = 1} :
  \E p \in ParentMaps(N) :
    /\ nodeCount = N
    /\ parent = p
    /\ left = InitLeft(p)
    /\ right = InitRight(p)
    /\ root = 1
    /\ pll_errno = NoError
    /\ out_self = Uninit
    /\ out_sister = Uninit
    /\ outbuffer = [i \in 1..N |-> NULL]
    /\ n_nodes = 0
    /\ rollback_info = NoRollback
    /\ call = NoCall
    /\ pre = [parent |-> p, left |-> InitLeft(p), right |-> InitRight(p),
              root |-> 1, pll_errno |-> NoError,
              outbuffer |-> [i \in 1..N |-> NULL], n_nodes |-> 0,
              rollback_info |-> NoRollback]
    /\ ret = "none"
    /\ ret_node = NULL
    /\ status = "ok"
    /\ calls = 0

\* a caller can make another call: the process is alive and the budget allows
CanCall == status = "ok" /\ calls < MaxCalls

\* ---------------------------------------------------------------- actions
GetSister ==
  /\ CanCall
  /\ \E node \in 1..nodeCount, self \in BOOLEAN, sister \in BOOLEAN :
    LET r == pllmod_rtree_get_sister(Heap, node) IN
    /\ call' = [NoCall EXCEPT !.op = "get_sister", !.node = node,
                              !.self = self, !.sister = sister]
    /\ pre' = Snapshot
    /\ out_self' = IF self THEN r.self ELSE Uninit
    /\ out_sister' = IF sister THEN r.sister ELSE Uninit
    /\ pll_errno' = SetErrno(pll_errno, r.err)
    /\ ret' = r.ret
    /\ ret_node' = NULL
    /\ status' = "ok"
    /\ calls' = calls + 1
    /\ UNCHANGED <<parent, left, right, nodeCount, root, outbuffer, n_nodes,
                   rollback_info>>

\* The heap a call leaves.  After undefined behaviour the writes made before
\* it may or may not have reached memory.
HeapsAfter(r) == IF r.status = "crash" THEN {r.T, Heap} ELSE {r.T}

Prune ==
  /\ CanCall
  /\ \E node \in 1..nodeCount :
    \E r \in {pllmod_rtree_prune(Heap, node)} :
    \E T \in HeapsAfter(r) :
      /\ call' = [NoCall EXCEPT !.op = "prune", !.node = node]
      /\ pre' = Snapshot
      /\ parent' = T.parent
      /\ left' = T.left
      /\ right' = T.right
      /\ pll_errno' = SetErrno(pll_errno, r.err)
      /\ ret' = IF r.status = "ok" THEN "pointer" ELSE "none"
      /\ ret_node' = r.ret
      /\ status' = r.status
      /\ calls' = calls + 1
      /\ out_self' = Uninit
      /\ out_sister' = Uninit
      /\ UNCHANGED <<nodeCount, root, outbuffer, n_nodes, rollback_info>>

Regraft ==
  /\ CanCall
  /\ \E node \in 1..nodeCount, tree \in 1..nodeCount :
    \E r \in {pllmod_rtree_regraft(Heap, node, tree)} :
    \E T \in HeapsAfter(r) :
      /\ call' = [NoCall EXCEPT !.op = "regraft", !.node = node, !.tree = tree]
      /\ pre' = Snapshot
      /\ parent' = T.parent
      /\ left' = T.left
      /\ right' = T.right
      /\ pll_errno' = SetErrno(pll_errno, r.err)
      /\ ret' = IF r.status = "ok" THEN r.ret ELSE "none"
      /\ ret_node' = NULL
      /\ status' = r.status
      /\ calls' = calls + 1
      /\ out_self' = Uninit
      /\ out_sister' = Uninit
      /\ UNCHANGED <<nodeCount, root, outbuffer, n_nodes, rollback_info>>

Spr ==
  /\ CanCall
  /\ \E p_node \in 1..nodeCount, r_tree \in 1..nodeCount :
     \E useRoot \in BOOLEAN, useRollback \in BOOLEAN :
    \E r \in pllmod_rtree_spr(Heap, pll_errno, root, rollback_info, p_node, r_tree,
                               useRoot, useRollback) :
    \E T \in HeapsAfter(r) :
      /\ call' = [NoCall EXCEPT !.op = "spr", !.node = p_node, !.tree = r_tree,
                                !.root = useRoot, !.rollback = useRollback]
      /\ pre' = Snapshot
      /\ parent' = T.parent
      /\ left' = T.left
      /\ right' = T.right
      /\ root' = r.root
      /\ rollback_info' = r.rollback_info
      /\ pll_errno' = r.err
      /\ ret' = r.ret
      /\ ret_node' = NULL
      /\ status' = r.status
      /\ calls' = calls + 1
      /\ out_self' = Uninit
      /\ out_sister' = Uninit
      /\ UNCHANGED <<nodeCount, outbuffer, n_nodes>>

NodesAtNodeDist ==
  /\ CanCall
  /\ \E rt \in 1..nodeCount, min_distance \in Distances, max_distance \in Distances :
    \E r \in {pllmod_rtree_nodes_at_node_dist(Heap, rt, outbuffer, n_nodes,
                                               min_distance, max_distance)} :
      /\ call' = [NoCall EXCEPT !.op = "nodes_at_node_dist", !.node = rt,
                                !.min_distance = min_distance,
                                !.max_distance = max_distance]
      /\ pre' = Snapshot
      /\ outbuffer' = r.outbuffer
      /\ n_nodes' = r.n_nodes
      /\ pll_errno' = SetErrno(pll_errno, r.err)
      /\ ret' = r.ret
      /\ ret_node' = NULL
      /\ status' = r.status
      /\ calls' = calls + 1
      /\ out_self' = Uninit
      /\ out_sister' = Uninit
      /\ UNCHANGED <<parent, left, right, nodeCount, root, rollback_info>>

Next == GetSister \/ Prune \/ Regraft \/ Spr \/ NodesAtNodeDist

Spec == Init /\ [][Next]_vars

\* ============================================================== properties
\* The vocabulary of the properties: the heap before the last call, tree notions
\* (sibling, subtree, distance) and the trees callers start from.
PreHeap == [parent |-> pre.parent, left |-> pre.left, right |-> pre.right]

PreWellFormed ==
  /\ WellFormed(PreHeap, nodeCount)
  /\ pre.parent[pre.root] = NULL

\* the well-formed trees of N nodes that Init draws from
InitHeaps(N) ==
  {[parent |-> p, left |-> InitLeft(p), right |-> InitRight(p)] : p \in ParentMaps(N)}

\* the other child of n's parent
Sibling(T, n) ==
  IF T.left[T.parent[n]] = n THEN T.right[T.parent[n]] ELSE T.left[T.parent[n]]

AncestorsOrSelf(T, n) == {n} \cup AncestorsOf(T, n, MaxNodes)

\* n and everything below it
Subtree(T, n) == {m \in Nodes : n \in AncestorsOrSelf(T, m)}

\* number of edges on the path between a and b of a well-formed tree
Distance(T, a, b) ==
  Cardinality(AncestorsOrSelf(T, a)) + Cardinality(AncestorsOrSelf(T, b))
    - 2 * Cardinality(AncestorsOrSelf(T, a) \cap AncestorsOrSelf(T, b))

Depth(T, n) == Cardinality(AncestorsOf(T, n, MaxNodes))

IsLeaf(T, n) == T.left[n] = NULL /\ T.right[n] = NULL

\* the nodes in the first n_nodes entries of the output buffer
Written == {outbuffer[i] : i \in 1..n_nodes}

\* the slot of q on the side that held x in T, as it is in the current heap
SameSlotNow(T, q, x) == IF T.left[q] = x THEN left[q] ELSE right[q]

Opposite(slot) ==
  IF slot.side = "left" THEN RightOf(slot.node) ELSE LeftOf(slot.node)

IsChildCell(slot) == slot.node \in Nodes /\ slot.side \in {"left", "right"}

\* the heap before the last call is what prune(n) leaves of the well-formed X
PreIsPruned(X, n) ==
  /\ X.parent[n] # NULL
  /\ pllmod_rtree_prune(X, n).T = PreHeap

\* C1: spr(prune_node, t, root_handle) on a well-formed tree, prune_node not
\* the root, t neither the parent of prune_node nor inside its subtree: spr
\* returns success, the parent p of prune_node takes the position of t with
\* the children prune_node and t, the former sibling takes the position of p,
\* and root_handle is the one parentless node, reached from every node.
C1_SprMovesSubtree ==
  (/\ call.op = "spr"
   /\ call.root
   /\ PreWellFormed
   /\ pre.parent[call.node] # NULL
   /\ call.tree # pre.parent[call.node]
   /\ call.tree \notin Subtree(PreHeap, call.node))
  =>
  LET n == call.node
      t == call.tree
      p == pre.parent[n]
      s == Sibling(PreHeap, n)
      g == pre.parent[p]
      \* the parent of the position p is inserted at, and the node it held there
      tpos == IF t = s THEN g ELSE pre.parent[t]
      held == IF t = s THEN p ELSE t
  IN /\ status = "ok"
     /\ ret = PLL_SUCCESS
     /\ parent[p] = tpos
     /\ tpos # NULL => SameSlotNow(PreHeap, tpos, held) = p
     /\ {left[p], right[p]} = {n, t}
     /\ parent[n] = p
     /\ parent[t] = p
     /\ t # s => (IF g = NULL THEN parent[s] = NULL
                  ELSE SameSlotNow(PreHeap, g, p) = s
                       /\ parent[s] = (IF t = g THEN g ELSE pre.parent[p]))
     /\ parent[root] = NULL
     /\ \A m \in 1..nodeCount : RootWalk(Heap, m, MaxNodes) = root

\* C2: round trip.  When the heap before a regraft(n, s) is what prune(n)
\* left of a well-formed tree X and s is the sibling n had in X, the regraft
\* succeeds and every node has the parent and the children it has in X.
C2_PruneRegraftRoundTrip ==
  \A X \in InitHeaps(nodeCount) :
    (/\ call.op = "regraft"
     /\ PreIsPruned(X, call.node)
     /\ call.tree = Sibling(X, call.node))
    => (status = "ok" /\ ret = PLL_SUCCESS /\ Heap = X)

\* C3: after a successful regraft(node, target) of a fragment that prune cut
\* out below a grandparent, onto a target outside the fragment: the parent p
\* of node holds exactly node and target, both name p as parent, and I1 holds
\* for every node.
C3_RegraftJoinsUnderParent ==
  \A X \in InitHeaps(nodeCount) :
    (/\ call.op = "regraft"
     /\ PreIsPruned(X, call.node)
     /\ X.parent[X.parent[call.node]] # NULL
     /\ call.tree \notin {X.parent[call.node]} \cup Subtree(X, call.node)
     /\ status = "ok"
     /\ ret = PLL_SUCCESS)
    => LET p == pre.parent[call.node] IN
       /\ {left[p], right[p]} = {call.node, call.tree}
       /\ parent[call.node] = p
       /\ parent[call.tree] = p
       /\ I1(Heap, nodeCount)

\* C4: after a successful prune(node) on a well-formed tree, with p the
\* parent of node: p has no parent, the returned node has no parent, left or
\* right pointer to p or node, and when p was the root the returned node is
\* the former sibling and has no parent; I1 holds for the remainder.
C4_PruneDetaches ==
  (/\ call.op = "prune"
   /\ PreWellFormed
   /\ status = "ok"
   /\ ret_node # NULL)
  =>
  LET node == call.node
      p == pre.parent[node]
      fragment == {p} \cup Subtree(PreHeap, node)
  IN /\ parent[p] = NULL
     /\ parent[ret_node] \notin {p, node}
     /\ left[ret_node] \notin {p, node}
     /\ right[ret_node] \notin {p, node}
     /\ pre.parent[p] = NULL =>
          (ret_node = Sibling(PreHeap, node) /\ parent[ret_node] = NULL)
     /\ \A m \in (1..nodeCount) \ fragment : parent[m] # NULL =>
          (left[parent[m]] = m) # (right[parent[m]] = m)

\* C5: on a well-formed tree of more than one node, with
\* 0 <= min_distance <= max_distance, the call
\* succeeds and the nodes written are exactly those whose distance to the
\* reference node lies in [min_distance, max_distance].
C5_NodesAtDistExact ==
  (/\ call.op = "nodes_at_node_dist"
   /\ PreWellFormed
   /\ nodeCount > 1
   /\ call.min_distance >= 0
   /\ call.min_distance <= call.max_distance)
  =>
  /\ status = "ok"
  /\ ret = PLL_SUCCESS
  /\ Written = {m \in 1..nodeCount :
                  /\ Distance(Heap, call.node, m) >= call.min_distance
                  /\ Distance(Heap, call.node, m) <= call.max_distance}

\* C6: nodes_at_distance(ref, 0, 0) on a well-formed tree of more than one
\* node writes one node, ref.
C6_DistZeroIsSelf ==
  (/\ call.op = "nodes_at_node_dist"
   /\ PreWellFormed
   /\ nodeCount > 1
   /\ call.min_distance = 0
   /\ call.max_distance = 0)
  => (status = "ok" /\ n_nodes = 1 /\ outbuffer[1] = call.node)

\* C7: nodes_at_distance(ref, 1, 1) on a leaf ref that has a parent writes
\* one node, the parent of ref.
C7_LeafDistOneIsParent ==
  (/\ call.op = "nodes_at_node_dist"
   /\ PreWellFormed
   /\ IsLeaf(Heap, call.node)
   /\ parent[call.node] # NULL
   /\ call.min_distance = 1
   /\ call.max_distance = 1)
  => (status = "ok" /\ n_nodes = 1 /\ outbuffer[1] = parent[call.node])

\* C8: on a perfectly balanced tree of depth d >= 1, nodes_at_distance(root, 0, d)
\* writes every node exactly once: 2^(d+1) - 1 entries.
C8_BalancedTreeAllNodes ==
  \A d \in 1..MaxDist :
    (/\ call.op = "nodes_at_node_dist"
     /\ PreWellFormed
     /\ \A m \in 1..nodeCount : IsLeaf(Heap, m) => Depth(Heap, m) = d
     /\ parent[call.node] = NULL
     /\ call.min_distance = 0
     /\ call.max_distance = d)
    => (/\ status = "ok"
        /\ n_nodes = 2 ^ (d + 1) - 1
        /\ Written = 1..nodeCount)

\* C9: get_sister(n) of a node held by its parent's left or right slot
\* succeeds, self is the parent's cell that holds n and sister is the
\* parent's other cell; for a parentless node it succeeds with both slots
\* absent; no parent, left or right pointer changes.
C9_GetSisterSlots ==
  call.op = "get_sister" =>
  LET n == call.node
      q == parent[n]
  IN /\ (q # NULL /\ (left[q] = n \/ right[q] = n)) =>
          /\ ret = PLL_SUCCESS
          /\ call.self =>
               (IsChildCell(out_self) /\ out_self.node = q
                /\ Deref(Heap, out_self) = n)
          /\ call.sister =>
               (IsChildCell(out_sister) /\ out_sister.node = q
                /\ Deref(Heap, Opposite(out_sister)) = n)
          /\ (call.self /\ call.sister) => out_sister = Opposite(out_self)
     /\ q = NULL =>
          /\ ret = PLL_SUCCESS
          /\ call.self => out_self = NoSlot
          /\ call.sister => out_sister = NoSlot
     /\ parent = pre.parent
     /\ left = pre.left
     /\ right = pre.right

\* a right child was looked up with both slots requested
C9_Witness ==
  /\ call.op = "get_sister"
  /\ call.self
  /\ call.sister
  /\ parent[call.node] # NULL
  /\ right[parent[call.node]] = call.node
  /\ left[parent[call.node]] # NULL
  /\ left[parent[call.node]] # call.node
  /\ ret = PLL_SUCCESS
  /\ Deref(Heap, out_sister) = left[parent[call.node]]

\* C10: get_sister(node) of a node whose parent holds it in neither slot
\* fails with InvalidTree and sets every requested slot to absent; a
\* successful call never hands out a self slot that does not hold node.
C10_GetSisterInvalidTree ==
  call.op = "get_sister" =>
  LET n == call.node
      q == parent[n]
  IN /\ (q # NULL /\ left[q] # n /\ right[q] # n) =>
          /\ ret = PLL_FAILURE
          /\ pll_errno = PLLMOD_TREE_ERROR_INVALID_TREE
          /\ call.self => out_self = NoSlot
          /\ call.sister => out_sister = NoSlot
     /\ (ret = PLL_SUCCESS /\ call.self /\ out_self # NoSlot) =>
          Deref(Heap, out_self) = n

\* a node that names a parent which does not hold it was looked up
C10_Witness ==
  /\ call.op = "get_sister"
  /\ call.self
  /\ call.sister
  /\ parent[call.node] # NULL
  /\ left[parent[call.node]] # call.node
  /\ right[parent[call.node]] # call.node
  /\ ret = PLL_FAILURE
  /\ out_self = NoSlot
  /\ out_sister = NoSlot

\* is n held by a slot of its parent in T
IsChildOfParent(T, n) ==
  T.parent[n] # NULL /\ (T.left[T.parent[n]] = n \/ T.right[T.parent[n]] = n)

\* C11: a prune(node) that fails (returns NULL) leaves every parent, left and
\* right pointer as it was; it fails with InvalidNode when node has no parent
\* and with InvalidTree when node is not a child of its parent or node.parent
\* is not a child of its own parent.
C11_PruneFailureWritesNothing ==
  (call.op = "prune" /\ status = "ok") =>
  LET node == call.node
      p == pre.parent[node]
  IN /\ ret_node = NULL => Heap = PreHeap
     /\ p = NULL =>
          (ret_node = NULL /\ pll_errno = PLLMOD_TREE_ERROR_SPR_INVALID_NODE)
     /\ (p # NULL /\ ~IsChildOfParent(PreHeap, node)) =>
          (ret_node = NULL /\ pll_errno = PLLMOD_TREE_ERROR_INVALID_TREE)
     /\ (/\ p # NULL
         /\ IsChildOfParent(PreHeap, node)
         /\ pre.parent[p] # NULL
         /\ ~IsChildOfParent(PreHeap, p)) =>
          (ret_node = NULL /\ pll_errno = PLLMOD_TREE_ERROR_INVALID_TREE)

\* a prune failed in the grandparent-slot lookup: node is held by its parent,
\* its sibling cell is filled, and the parent is not held by the grandparent
C11_Witness ==
  /\ call.op = "prune"
  /\ status = "ok"
  /\ IsChildOfParent(PreHeap, call.node)
  /\ Sibling(PreHeap, call.node) # NULL
  /\ pre.parent[pre.parent[call.node]] # NULL
  /\ ~IsChildOfParent(PreHeap, pre.parent[call.node])
  /\ ret_node = NULL
  /\ pll_errno = PLLMOD_TREE_ERROR_INVALID_TREE

\* C12: regraft(node, target) fails with InvalidNode when node has no parent
\* or node.parent has a parent; a regraft that fails leaves every parent,
\* left and right pointer as it was.
C12_RegraftFailureWritesNothing ==
  (call.op = "regraft" /\ status = "ok") =>
  LET node == call.node
      p == pre.parent[node]
  IN /\ ret = PLL_FAILURE => Heap = PreHeap
     /\ (p = NULL \/ pre.parent[p] # NULL) =>
          (ret = PLL_FAILURE /\ pll_errno = PLLMOD_TREE_ERROR_SPR_INVALID_NODE)

\* a regraft of a detached fragment failed in the target-side lookup
C12_Witness ==
  /\ call.op = "regraft"
  /\ status = "ok"
  /\ pre.parent[call.node] # NULL
  /\ pre.parent[pre.parent[call.node]] = NULL
  /\ pre.parent[call.tree] # NULL
  /\ ~IsChildOfParent(PreHeap, call.tree)
  /\ ret = PLL_FAILURE
  /\ pll_errno = PLLMOD_TREE_ERROR_INVALID_TREE

\* C13: nodes_at_distance with max_distance < min_distance fails with
\* InvalidRange and leaves the output buffer and the output count as they were.
C13_InvalidRangeWritesNothing ==
  (call.op = "nodes_at_node_dist" /\ call.max_distance < call.min_distance) =>
  /\ status = "ok"
  /\ ret = PLL_FAILURE
  /\ pll_errno = PLLMOD_ERROR_INVALID_RANGE
  /\ outbuffer = pre.outbuffer
  /\ n_nodes = pre.n_nodes

\* an invalid range was passed while the buffer held the output of an
\* earlier call
C13_Witness ==
  /\ call.op = "nodes_at_node_dist"
  /\ call.max_distance < call.min_distance
  /\ pre.n_nodes > 0
  /\ n_nodes = pre.n_nodes
  /\ ret = PLL_FAILURE

\* C14: when spr is called with a rollback record and a prune_node held by its
\* parent, the record holds move kind SPR, rooted = 1, prune edge =
\* prune_node and regraft edge = prune_node's sibling in the tree as it was
\* before the call, whatever the later steps did to the tree (the record is
\* filled in from the pointers as they are before the first store).
C14_RollbackRecordsPreCallSibling ==
  (call.op = "spr" /\ call.rollback /\ IsChildOfParent(PreHeap, call.node)) =>
  rollback_info = [rearrange_type |-> PLLMOD_TREE_REARRANGE_SPR,
                   rooted |-> 1,
                   prune_edge |-> call.node,
                   regraft_edge |-> Sibling(PreHeap, call.node)]

\* spr with a rollback record pruned a node of a well-formed tree: the tree
\* changed, the sibling has left its cell, and the record names it
C14_Witness ==
  /\ call.op = "spr"
  /\ call.rollback
  /\ PreWellFormed
  /\ pre.parent[call.node] # NULL
  /\ Heap # PreHeap
  /\ Sibling(Heap, call.node) = NULL
  /\ rollback_info.regraft_edge = Sibling(PreHeap, call.node)
  /\ rollback_info.regraft_edge # NULL
  /\ rollback_info # pre.rollback_info

\* C15: whenever spr returns failure after its prune step succeeded, the tree
\* pointers are exactly those prune(prune_node) alone produces from the
\* pre-call tree, and the root handle is unchanged.
C15_SprFailureLeavesPrunedTree ==
  (/\ call.op = "spr"
   /\ status = "ok"
   /\ ret = PLL_FAILURE
   /\ pllmod_rtree_prune(PreHeap, call.node).status = "ok"
   /\ pllmod_rtree_prune(PreHeap, call.node).ret # NULL) =>
  /\ Heap = pllmod_rtree_prune(PreHeap, call.node).T
  /\ root = pre.root

\* spr failed in its regraft step after pruning a node of a well-formed
\* tree, with a regraft target that had a parent
C15_Witness ==
  /\ call.op = "spr"
  /\ status = "ok"
  /\ ret = PLL_FAILURE
  /\ PreWellFormed
  /\ pre.parent[call.node] # NULL
  /\ pre.parent[call.tree] # NULL
  /\ call.tree # call.node
  /\ Heap # PreHeap
  /\ Heap = pllmod_rtree_prune(PreHeap, call.node).T

\* C16: spr called with a prune_node that has no parent, with or without a
\* rollback record, returns failure with InvalidNode, violates no assertion,
\* dereferences no absent slot, and leaves the tree and the root handle as
\* they were.
C16_SprOnRootFailsCleanly ==
  (/\ call.op = "spr"
   /\ PreWellFormed
   /\ nodeCount > 1
   /\ pre.parent[call.node] = NULL
   /\ call.tree # call.node) =>
  /\ status = "ok"
  /\ ret = PLL_FAILURE
  /\ pll_errno = PLLMOD_TREE_ERROR_SPR_INVALID_NODE
  /\ Heap = PreHeap
  /\ root = pre.root

\* C17: for a fragment of the shape prune leaves (node with a parentless
\* parent p whose only child is node) and a parentless target outside the
\* fragment, regraft(node, target) succeeds without writing through an absent
\* slot, and afterwards p is parentless with children {node, target} and
\* target.parent = p.
C17_RegraftOntoParentlessTarget ==
  (\E X \in InitHeaps(nodeCount) :
     /\ call.op = "regraft"
     /\ PreIsPruned(X, call.node)
     /\ pre.parent[pre.parent[call.node]] = NULL
     /\ pre.parent[call.tree] = NULL
     /\ call.tree \notin AncestorsOrSelf(PreHeap, call.node)) =>
  LET p == pre.parent[call.node] IN
  /\ status = "ok"
  /\ ret = PLL_SUCCESS
  /\ parent[p] = NULL
  /\ {left[p], right[p]} = {call.node, call.tree}
  /\ parent[call.tree] = p

\* C18: grandparent case of prune. For a well-formed tree and a node with
\* parent p, sibling s and grandparent g = p.parent, prune(node) returns g;
\* afterwards the slot of g that held p holds s, s.parent = g, p.parent is
\* absent, the slot of p that held s is empty, the other slot of p holds node
\* and node.parent = p; every other parent, left and right pointer is
\* unchanged.
C18_PruneGrandparentFrame ==
  (/\ call.op = "prune"
   /\ PreWellFormed
   /\ pre.parent[call.node] # NULL
   /\ pre.parent[pre.parent[call.node]] # NULL) =>
  LET node == call.node
      p == pre.parent[node]
      s == Sibling(PreHeap, node)
      g == pre.parent[p]
  IN /\ status = "ok"
     /\ ret_node = g
     /\ parent = [pre.parent EXCEPT ![s] = g, ![p] = NULL]
     /\ parent[node] = p
     /\ left = [pre.left EXCEPT ![g] = IF pre.left[g] = p THEN s ELSE @,
                                ![p] = IF pre.left[p] = s THEN NULL ELSE @]
     /\ right = [pre.right EXCEPT ![g] = IF pre.right[g] = p THEN s ELSE @,
                                  ![p] = IF pre.right[p] = s THEN NULL ELSE @]
     /\ {left[p], right[p]} = {node, NULL}
     /\ s \in {left[g], right[g]}
     /\ p \notin {left[g], right[g]}

\* a node with a grandparent was pruned from a well-formed tree and the call
\* returned the grandparent
C18_Witness ==
  /\ call.op = "prune"
  /\ status = "ok"
  /\ PreWellFormed
  /\ pre.parent[call.node] # NULL
  /\ pre.parent[pre.parent[call.node]] # NULL
  /\ ret_node = pre.parent[pre.parent[call.node]]
  /\ parent[Sibling(PreHeap, call.node)] = ret_node
  /\ Heap # PreHeap

\* no node is reachable from itself by parent links, and no node is its own
\* child
Acyclic(T) ==
  \A n \in Nodes :
    /\ n \notin AncestorsOf(T, n, MaxNodes)
    /\ T.left[n] # n
    /\ T.right[n] # n

\* C19: starting from a well-formed tree, after prune(node) and a regraft of
\* the pruned node onto an arbitrary target (the node itself and the nodes of
\* the pruned fragment included), the parent relation is acyclic: no node is
\* reachable from itself by parent links and no node is its own child.
C19_ParentRelationAcyclic ==
  (\E X \in InitHeaps(nodeCount) :
     /\ call.op = "regraft"
     /\ PreIsPruned(X, call.node)
     /\ Acyclic(PreHeap)
     /\ status = "ok") =>
  Acyclic(Heap)

\* C20: for a well-formed tree with N nodes, every reference node and every
\* min_distance <= max_distance, nodes_at_distance writes no node more than
\* once: the output count does not exceed N, a buffer of capacity N is not
\* overrun, and the entries written are pairwise different.
C20_NodesAtDistNoDuplicates ==
  (/\ call.op = "nodes_at_node_dist"
   /\ PreWellFormed
   /\ call.min_distance <= call.max_distance) =>
  /\ status = "ok"
  /\ n_nodes <= nodeCount
  /\ \A i, j \in 1..n_nodes : i # j => outbuffer[i] # outbuffer[j]
  /\ \A i \in 1..n_nodes : outbuffer[i] \in 1..nodeCount

\* a call on a well-formed tree climbed past two sibling subtrees and wrote
\* the sibling of the reference node among at least three nodes
C20_Witness ==
  /\ call.op = "nodes_at_node_dist"
  /\ PreWellFormed
  /\ call.min_distance <= call.max_distance
  /\ pre.parent[call.node] # NULL
  /\ pre.parent[pre.parent[call.node]] # NULL
  /\ n_nodes >= 3
  /\ \E i \in 1..n_nodes : outbuffer[i] = Sibling(PreHeap, call.node)
  /\ \E i \in 1..n_nodes : outbuffer[i] = Sibling(PreHeap, pre.parent[call.node])

====
